---- MODULE Spec2Model ----
(***************************************************************************)
(* A model of the lazy protobuf decode engine of serde-protobuf:           *)
(*   - util.rs            retain_last_by_key                               *)
(*   - arraypool.rs       ArrayPool (three free lists of cleared vectors)  *)
(*   - value/borrowed.rs  SingleFieldValue, compute_default_value_for_field*)
(*                        LazliyParsedMessage::parse_from_reader           *)
(*   - de.rs              InnerMessageDeserializer, MessageMapVisitor,     *)
(*                        RepeatedValueVisitor, visit_value                *)
(*                                                                         *)
(* The wire reader (quick_protobuf::BytesReader) and the descriptor        *)
(* registry are external.  A wire input is the sequence of its field       *)
(* occurrences (field number, payload) followed, when `bad` is set, by     *)
(* bytes the reader rejects.  A payload is a number: the scalar itself, or *)
(* for a length-delimited submessage the index of its byte span in         *)
(* Payloads.  The registry is a fixed set of message shapes.               *)
(***************************************************************************)
EXTENDS Integers, Sequences, FiniteSets, TLC

VARIABLES
    pool,       \* ArrayPool: the three free lists, each a stack of vectors
    frames,     \* the active InnerMessageDeserializer::deserialize_any calls
    trace,      \* the calls made on the visitor during the session, in order
    bufs,       \* the vectors acquired in the session: shape, state, releases
    phase,      \* "idle" | "run" | "done"
    result,     \* what the session returned: "none" | "ok" | error | "panic"
    input,      \* the session's descriptor and wire bytes
    decodes,    \* parse_from_reader invocations in the session
    last,       \* the latest parse_from_reader call: descriptor, wire, outcome
    sessions,   \* sessions started on this pool
    peak,       \* per shape, the most vectors ever outstanding at once
    ref,        \* the first session's input and visitor calls
    retain      \* a call of retain_last_by_key by itself: the vector given
                \* and the vector as the call left it

vars == <<pool, frames, trace, bufs, phase, result, input, decodes, last,
          sessions, peak, ref, retain>>

(***************************************************************************)
(* Bounds of the model.                                                    *)
(***************************************************************************)
\* The occurrences of a top-level wire.
MaxWire == 3
\* The calls of next_key_seed the visitors of a session make on maps that
\* have reported their end already.
MaxPolls == 1
\* The sessions on one DeserializerBuilder.
MaxSessions == 3
\* The returns of a session's visitors from visit_map or visit_seq before
\* the end of what they read.
MaxEarly == 1
\* The length of a vector given to retain_last_by_key by itself, and the
\* keys of its elements.
MaxVec == 4
MaxKey == 3

(***************************************************************************)
(* The descriptor registry (external): message shapes and enum types.      *)
(***************************************************************************)
FD(number, name, label, ty, tref, hasDef, defKind, defN) ==
    [number |-> number, name |-> name, label |-> label, ty |-> ty,
     tref |-> tref, hasDef |-> hasDef, defKind |-> defKind, defN |-> defN]

Plain(number, name, label, ty, tref) ==
    FD(number, name, label, ty, tref, FALSE, "", 0)

MessageNames ==
    {"Scalars", "Rep", "Outer", "Inner", "Enums", "Types", "Unres",
     "UnresReq", "Defs"}

Fields(m) ==
    CASE m = "Scalars" ->
           << Plain(2, "b", "optional", "Int32", ""),
              Plain(1, "a", "required", "Int32", ""),
              FD(3, "c", "optional", "Int32", "", TRUE, "I32", 7) >>
      [] m = "Rep" ->
           << Plain(4, "r", "repeated", "Int32", ""),
              Plain(1, "a", "required", "Int32", ""),
              Plain(5, "s", "repeated", "Int32", "") >>
      [] m = "Outer" ->
           << Plain(1, "m", "optional", "Message", "Inner"),
              Plain(2, "rm", "repeated", "Message", "Inner"),
              Plain(3, "q", "required", "Message", "Inner") >>
      [] m = "Inner" ->
           << Plain(1, "x", "required", "Int32", ""),
              Plain(2, "y", "repeated", "Int32", "") >>
      [] m = "Enums" ->
           << Plain(1, "e", "required", "Enum", "E"),
              FD(2, "f", "optional", "Enum", "E", TRUE, "Enum", 1),
              Plain(3, "g", "repeated", "Enum", "E"),
              Plain(4, "h", "required", "Enum", "NZ") >>
      [] m = "Types" ->
           << Plain(1, "t_bool", "required", "Bool", ""),
              Plain(2, "t_string", "required", "String", ""),
              Plain(3, "t_bytes", "required", "Bytes", ""),
              Plain(4, "t_double", "required", "Double", ""),
              Plain(5, "t_uint64", "required", "UInt64", ""),
              Plain(6, "t_sint64", "optional", "SInt64", "") >>
      [] m = "Unres" ->
           << Plain(1, "a", "required", "Int32", ""),
              Plain(2, "u", "optional", "UnresolvedMessage", "Missing"),
              Plain(3, "v", "repeated", "UnresolvedEnum", "MissingE"),
              Plain(4, "grp", "optional", "Group", "") >>
      [] m = "UnresReq" ->
           << Plain(1, "a", "required", "Int32", ""),
              Plain(2, "u", "required", "UnresolvedEnum", "MissingE") >>
      [] m = "Defs" ->
           << FD(1, "d_req", "required", "Int32", "", TRUE, "I32", 5),
              Plain(3, "r", "repeated", "Int32", "") >>

EnumNames(e) ==
    CASE e = "E" -> << <<0, "ZERO">>, <<1, "ONE">> >>
      [] e = "NZ" -> << <<1, "UNO">> >>
      [] OTHER -> << >>

\* FieldDescriptor::is_repeated
is_repeated(f) == f.label = "repeated"

\* MessageDescriptor::fields().iter().find(|f| f.number() == n): the index of
\* the first declared field with that number, 0 when there is none.
FindField(m, n) ==
    LET hits == {i \in 1..Len(Fields(m)) : Fields(m)[i].number = n}
    IN  IF hits = {} THEN 0 ELSE CHOOSE i \in hits : \A j \in hits : i <= j

\* Body applied to the value of v, which is computed once.
With(v, Body(_)) == CHOOSE r \in {Body(x) : x \in {v}} : TRUE

(***************************************************************************)
(* Wire inputs.                                                            *)
(***************************************************************************)
Occ(num, val) == [num |-> num, val |-> val]

Wire(items, bad) == [items |-> items, bad |-> bad]

\* The byte spans a message-typed occurrence can carry (its payload).
Payloads ==
    << Wire(<< >>, FALSE),
       Wire(<< Occ(1, 1), Occ(2, 1) >>, FALSE),
       Wire(<< Occ(2, 2) >>, TRUE) >>

(***************************************************************************)
(* value/borrowed.rs: SingleFieldValue and Field.                          *)
(***************************************************************************)
\* A SingleFieldValue: variant k; n the number it carries (the scalar, the
\* enum number, the index of the borrowed byte span); d the descriptor of a
\* LazyMessage; ik the variant of the owned value a BorrowedDefaultValue
\* points to.
SingleFieldValue(k, n, d, ik) == [k |-> k, n |-> n, d |-> d, ik |-> ik]

Null == SingleFieldValue("Null", 0, "", "")

\* Field<V>: descriptor (the index fi of the field in its message), tag and
\* value; h is the vector that backs a repeated value.
Field(fi, tag, value, h) == [fi |-> fi, tag |-> tag, value |-> value, h |-> h]

\* SingleFieldValue::parse_from_reader: one value read as the declared type.
ParsedVariant(ty) ==
    CASE ty = "Double" -> "F64"
      [] ty = "Float" -> "F32"
      [] ty = "Int64" -> "I64"
      [] ty = "UInt64" -> "U64"
      [] ty = "Int32" -> "I32"
      [] ty = "Fixed64" -> "U64"
      [] ty = "Fixed32" -> "U32"
      [] ty = "Bool" -> "Bool"
      [] ty = "String" -> "String"
      [] ty = "Bytes" -> "Bytes"
      [] ty = "UInt32" -> "U32"
      [] ty = "Enum" -> "Enum"
      [] ty = "SFixed32" -> "I32"
      [] ty = "SFixed64" -> "I64"
      [] ty = "SInt32" -> "I32"
      [] ty = "SInt64" -> "I64"
      [] ty = "Message" -> "LazyMessage"

\* A fault of SingleFieldValue::parse_from_reader: the span of a message
\* field is decoded on the spot.
parse_from_reader_eager(f, val) ==
    CASE f.ty = "UnresolvedMessage" -> [err |-> "UnknownMessage", value |-> Null]
      [] f.ty = "UnresolvedEnum" -> [err |-> "UnknownEnum", value |-> Null]
      [] f.ty = "Group" -> [err |-> "Custom", value |-> Null]
      [] f.ty = "Message" ->
           IF Payloads[val].bad
           THEN [err |-> "Reader", value |-> Null]
           ELSE [err |-> "", value |-> SingleFieldValue("LazyMessage", val, f.tref, "")]
      [] OTHER ->
           [err |-> "", value |-> SingleFieldValue(ParsedVariant(f.ty), val, "", "")]

SingleFieldValue_parse_from_reader(f, val) ==
    CASE f.ty = "UnresolvedMessage" -> [err |-> "UnknownMessage", value |-> Null]
      [] f.ty = "UnresolvedEnum" -> [err |-> "UnknownEnum", value |-> Null]
      [] f.ty = "Group" -> [err |-> "Custom", value |-> Null]
      [] f.ty = "Message" ->
           [err |-> "", value |-> SingleFieldValue("LazyMessage", val, f.tref, "")]
      [] OTHER ->
           [err |-> "", value |-> SingleFieldValue(ParsedVariant(f.ty), val, "", "")]

\* The zero value compute_default_value_for_field gives a type
\* (Default::default() of the variant's payload; Null for a message).
DefaultVariant(ty) ==
    CASE ty = "Double" -> "F64"
      [] ty = "Float" -> "F32"
      [] ty = "Int64" -> "I64"
      [] ty = "UInt64" -> "U64"
      [] ty = "Int32" -> "I32"
      [] ty = "Fixed64" -> "U64"
      [] ty = "Fixed32" -> "U32"
      [] ty = "Bool" -> "Bool"
      [] ty = "String" -> "String"
      [] ty = "Message" -> "Null"
      [] ty = "Bytes" -> "Bytes"
      [] ty = "UInt32" -> "U32"
      [] ty = "Enum" -> "Enum"
      [] ty = "SFixed32" -> "I32"
      [] ty = "SFixed64" -> "I64"
      [] ty = "SInt32" -> "I32"
      [] ty = "SInt64" -> "I64"

\* compute_default_value_for_field panics for these.
DefaultPanics(f) ==
    /\ ~f.hasDef
    /\ f.label # "optional"
    /\ f.ty \in {"UnresolvedMessage", "UnresolvedEnum", "Group"}

\* A fault of compute_default_value_for_field: the label is looked at before
\* the descriptor's default.
compute_default_label_first(m, i) ==
    LET f == Fields(m)[i]
        value ==
            IF f.label = "optional"
            THEN Null
            ELSE IF f.hasDef
            THEN SingleFieldValue("BorrowedDefaultValue", f.defN, "", f.defKind)
            ELSE SingleFieldValue(DefaultVariant(f.ty), 0, "", "")
    IN  Field(i, f.number, value, 0)

compute_default_value_for_field(m, i) ==
    LET f == Fields(m)[i]
        value ==
            IF f.hasDef
            THEN SingleFieldValue("BorrowedDefaultValue", f.defN, "", f.defKind)
            ELSE IF f.label = "optional"
            THEN Null
            ELSE SingleFieldValue(DefaultVariant(f.ty), 0, "", "")
    IN  Field(i, f.number, value, 0)

(***************************************************************************)
(* util.rs: retain_last_by_key, with the indices of the source (0-based).  *)
(***************************************************************************)
Swap(s, i, j) == [s EXCEPT ![i + 1] = s[j + 1], ![j + 1] = s[i + 1]]

\* A fault of retain_last_by_key: the swaps are left out.
NoSwap(slice, move_from_idx, write_idx) == slice

\* if move_from_idx != write_idx { slice.swap(move_from_idx, write_idx) }
SwapIfApart(slice, move_from_idx, write_idx) ==
    IF move_from_idx # write_idx
    THEN Swap(slice, move_from_idx, write_idx)
    ELSE slice

\* The while loop, the last swap and the truncate.
RECURSIVE RetainLoop(_, _, _, _, _)
RetainLoop(slice, current_key, write_idx, move_from_idx, read_idx) ==
    IF read_idx < Len(slice)
    THEN IF slice[read_idx + 1].tag # current_key
         THEN With(SwapIfApart(slice, move_from_idx, write_idx),
                   LAMBDA s2 : RetainLoop(s2, s2[read_idx + 1].tag,
                                          write_idx + 1, move_from_idx + 1,
                                          read_idx + 1))
         ELSE RetainLoop(slice, current_key, write_idx, move_from_idx + 1,
                         read_idx + 1)
    ELSE SubSeq(SwapIfApart(slice, move_from_idx, write_idx), 1, write_idx + 1)

\* A fault of retain_last_by_key: the first element of each run is kept.
retain_first_by_key(slice) ==
    LET keep == SelectSeq([i \in 1..Len(slice) |-> i],
                          LAMBDA i : i = 1 \/ slice[i - 1].tag # slice[i].tag)
    IN  [k \in 1..Len(keep) |-> slice[keep[k]]]

retain_last_by_key(slice) ==
    IF Len(slice) = 0 THEN slice
    ELSE RetainLoop(slice, slice[1].tag, 0, 0, 1)

\* A fault of parse_from_reader: the records are left in the order of the scan.
keep_order(s) == s

\* Vec::sort_by_key(|f| f.tag), a stable sort: an element goes behind those
\* of a smaller tag and those of its own tag that came before it.
SortedPlace(s, i) ==
    1 + Cardinality({j \in 1..Len(s) :
                        \/ s[j].tag < s[i].tag
                        \/ s[j].tag = s[i].tag /\ j < i})

sort_by_key(s) ==
    [p \in 1..Len(s) |-> s[CHOOSE i \in 1..Len(s) : SortedPlace(s, i) = p]]

(***************************************************************************)
(* arraypool.rs: ArrayPool.  A resource state R carries the pool, the      *)
(* session's record of the vectors it acquired, the peak, and the count of *)
(* parse_from_reader calls.                                                *)
(***************************************************************************)
Shapes == {"sfv", "fv", "rfv"}

ArrayPool_new == [sfv |-> << >>, fv |-> << >>, rfv |-> << >>]

\* A fault of clear_vec: the storage is reinterpreted with its elements.
keep_vec(vec) == vec

\* clear_vec: vec.clear(), then the storage is reinterpreted.
clear_vec(vec) == << >>

Outstanding(bs, shape) ==
    Cardinality({h \in 1..Len(bs) : bs[h].shape = shape /\ bs[h].st = "out"})

Max(a, b) == IF a >= b THEN a ELSE b

\* pool.pop().unwrap_or_else(Vec::new): the vector handed out, its handle
\* in the session's record, and the pool without it.
PoolGet(R, shape) ==
    LET lst == R.pool[shape]
        reused == lst # << >>
        bs == Append(R.bufs, [shape |-> shape, st |-> "out", rel |-> 0,
                              fresh |-> ~reused])
    IN  [vec |-> IF reused THEN lst[Len(lst)] ELSE << >>,
         h |-> Len(bs),
         R |-> [R EXCEPT
                  !.pool[shape] = IF reused THEN SubSeq(lst, 1, Len(lst) - 1)
                                  ELSE lst,
                  !.bufs = bs,
                  !.peak[shape] = Max(@, Outstanding(bs, shape))]]

get_single_field_val_vec(R) == PoolGet(R, "sfv")

get_field_vec(R) == PoolGet(R, "fv")

get_repeated_field_vec(R) == PoolGet(R, "rfv")

\* pool.push(clear_vec(value))
PoolReturn(R, shape, h, vec) ==
    [R EXCEPT !.pool[shape] = Append(@, clear_vec(vec)),
              !.bufs[h].st = "released",
              !.bufs[h].rel = @ + 1]

\* A fault of next_value_seed: the vector of a delivered repeated field is
\* let go without a return.
forget_single_field_val_vec(R, h, vec) == [R EXCEPT !.bufs[h].st = "dropped"]

return_single_field_val_vec(R, h, vec) == PoolReturn(R, "sfv", h, vec)

\* A fault of deserialize_any: the vector of the single fields is let go
\* without a return.
forget_field_vec(R, h, vec) == [R EXCEPT !.bufs[h].st = "dropped"]

return_field_vec(R, h, vec) == PoolReturn(R, "fv", h, vec)

return_repeated_field_vec(R, h, vec) == PoolReturn(R, "rfv", h, vec)

\* Vectors that go out of scope without a return are freed by Drop.
DropBufs(R, hs) ==
    [R EXCEPT !.bufs = [h \in 1..Len(R.bufs) |->
                          IF h \in hs /\ R.bufs[h].st = "out"
                          THEN [R.bufs[h] EXCEPT !.st = "dropped"]
                          ELSE R.bufs[h]]]

(***************************************************************************)
(* value/borrowed.rs: LazliyParsedMessage::parse_from_reader.              *)
(***************************************************************************)
\* The indices of the fields of m that satisfy the filter, in declaration
\* order: fields().iter().filter(..).
SingularIdx(m) ==
    SelectSeq([i \in 1..Len(Fields(m)) |-> i],
              LAMBDA i : ~is_repeated(Fields(m)[i]))

RepeatedIdx(m) ==
    SelectSeq([i \in 1..Len(Fields(m)) |-> i],
              LAMBDA i : is_repeated(Fields(m)[i]))

\* repeated_fields.extend(..): one record per repeated field, its value a
\* vector from the pool.
\* A fault of parse_from_reader: the repeated fields are not seeded.
SeedNothing(m, idx, k, repeated_fields, R) ==
    [repeated |-> repeated_fields, R |-> R]

RECURSIVE SeedRepeated(_, _, _, _, _)
SeedRepeated(m, idx, k, repeated_fields, R) ==
    IF k > Len(idx) THEN [repeated |-> repeated_fields, R |-> R]
    ELSE With(get_single_field_val_vec(R),
              LAMBDA g :
                With(Append(repeated_fields,
                            Field(idx[k], Fields(m)[idx[k]].number, g.vec, g.h)),
                     LAMBDA rf : SeedRepeated(m, idx, k + 1, rf, g.R)))

\* repeated_fields.iter_mut().find(|f| f.tag == field_number)
FindRepeated(repeated_fields, field_number) ==
    LET hits == {j \in 1..Len(repeated_fields) :
                    repeated_fields[j].tag = field_number}
    IN  IF hits = {} THEN 0 ELSE CHOOSE j \in hits : \A l \in hits : j <= l

\* A fault of the loop: a repeated value is put in front of the earlier ones.
StoreValueInFront(m, fi, field_number, value, st) ==
    IF is_repeated(Fields(m)[fi])
    THEN LET j == FindRepeated(st.repeated, field_number)
         IN  [st EXCEPT !.repeated[j].value = << value >> \o @]
    ELSE [st EXCEPT !.single = Append(@, Field(fi, field_number, value, 0))]

\* One turn of the loop `while !reader.is_eof()` for a declared field.
StoreValue(m, fi, field_number, value, st) ==
    IF is_repeated(Fields(m)[fi])
    THEN LET j == FindRepeated(st.repeated, field_number)
         IN  IF j # 0
             THEN [st EXCEPT !.repeated[j].value = Append(@, value)]
             ELSE With(get_single_field_val_vec(st.R),
                       LAMBDA g :
                         [st EXCEPT
                            !.repeated = Append(@, Field(fi, field_number,
                                                         Append(g.vec, value),
                                                         g.h)),
                            !.R = g.R])
    ELSE [st EXCEPT !.single = Append(@, Field(fi, field_number, value, 0))]

\* A fault of the loop: the unknown occurrence is kept as a record.
StoreUnknown(occ, st) ==
    [st EXCEPT !.single = Append(@, Field(1, occ.num,
                                          SingleFieldValue("U64", occ.val, "", ""),
                                          0))]

\* An occurrence whose number the descriptor does not declare:
\* reader.read_unknown skips it and nothing is stored.
SkipUnknown(occ, st) == st

RECURSIVE Scan(_, _, _, _)
Scan(m, w, i, st) ==
    IF i > Len(w.items)
    THEN IF w.bad THEN [st EXCEPT !.err = "Reader"] ELSE st
    ELSE LET occ == w.items[i]
             fi == FindField(m, occ.num)
         IN  IF fi = 0 THEN Scan(m, w, i + 1, SkipUnknown(occ, st))
             ELSE LET pv == SingleFieldValue_parse_from_reader(Fields(m)[fi],
                                                               occ.val)
                  IN  IF pv.err # "" THEN [st EXCEPT !.err = pv.err]
                      ELSE With(StoreValue(m, fi, occ.num, pv.value, st),
                                LAMBDA st2 : Scan(m, w, i + 1, st2))

Handles(repeated_fields) ==
    {repeated_fields[j].h : j \in 1..Len(repeated_fields)}

NoMessage == [single |-> << >>, repeated |-> << >>, sfh |-> 0, rfh |-> 0]

\* The whole of parse_from_reader on descriptor m and wire w: res is "ok"
\* with the message, an error (the vectors it held are dropped with its
\* locals), or "panic".
\* single_fields.extend(..): the default of every non-repeated field.
SeedSingle(m, single_fields) ==
    LET sidx == SingularIdx(m)
    IN  single_fields \o [k \in 1..Len(sidx) |->
                            compute_default_value_for_field(m, sidx[k])]

SeedPanics(m) == \E i \in 1..Len(Fields(m)) :
                    ~is_repeated(Fields(m)[i]) /\ DefaultPanics(Fields(m)[i])

\* The end of parse_from_reader, a1 and a2 the two vectors it acquired and
\* st what the loop left.
Parsed(a1, a2, st) ==
    IF st.err # ""
    THEN [res |-> st.err, msg |-> NoMessage,
          R |-> DropBufs(st.R, {a1.h, a2.h} \cup Handles(st.repeated))]
    ELSE [res |-> "ok",
          msg |-> [single |-> With(sort_by_key(st.single),
                                   LAMBDA sorted : retain_last_by_key(sorted)),
                   repeated |-> st.repeated,
                   sfh |-> a1.h, rfh |-> a2.h],
          R |-> st.R]

parse_from_reader(m, w, R0) ==
    With(get_field_vec([R0 EXCEPT !.decodes = @ + 1]), LAMBDA a1 :
    With(get_repeated_field_vec(a1.R), LAMBDA a2 :
      IF SeedPanics(m)
      THEN [res |-> "panic", msg |-> NoMessage,
            R |-> DropBufs(a2.R, {a1.h, a2.h})]
      ELSE With(SeedRepeated(m, RepeatedIdx(m), 1, a2.vec, a2.R),
                LAMBDA seeded :
           With(Scan(m, w, 1, [single |-> SeedSingle(m, a1.vec),
                               repeated |-> seeded.repeated,
                               R |-> seeded.R, err |-> ""]),
                LAMBDA st : Parsed(a1, a2, st)))))

(***************************************************************************)
(* de.rs: visit_value and visit_enum_value.                                *)
(***************************************************************************)
\* One call on the visitor: the operation, and its string or number.
Ev(op, str, n) == [op |-> op, s |-> str, n |-> n]

\* EnumDescriptor::value_by_number: the name, "" when there is none.
value_by_number(e, n) ==
    LET names == EnumNames(e)
        hits == {j \in 1..Len(names) : names[j][1] = n}
    IN  IF hits = {} THEN "" ELSE names[CHOOSE j \in hits : TRUE][2]

Delivered(ev) == [kind |-> "ev", ev |-> ev, err |-> "", d |-> "", n |-> 0]

Failed(err) == [kind |-> "err", ev |-> Ev("", "", 0), err |-> err, d |-> "", n |-> 0]

\* A fault of visit_enum_value: a number without a name is passed on as it is.
visit_enum_value_raw(value, f) ==
    IF f.ty = "Enum"
    THEN LET name == value_by_number(f.tref, value)
         IN  IF name = "" THEN Delivered(Ev("visit_i32", "", value))
             ELSE Delivered(Ev("visit_str", name, 0))
    ELSE Failed("Custom")

visit_enum_value(value, f) ==
    IF f.ty = "Enum"
    THEN LET name == value_by_number(f.tref, value)
         IN  IF name = "" THEN Failed("UnknownEnumValue")
             ELSE Delivered(Ev("visit_str", name, 0))
    ELSE Failed("Custom")

ScalarOp(k) ==
    CASE k = "Bool" -> "visit_bool"
      [] k = "I32" -> "visit_i32"
      [] k = "I64" -> "visit_i64"
      [] k = "U32" -> "visit_u32"
      [] k = "U64" -> "visit_u64"
      [] k = "F32" -> "visit_f32"
      [] k = "F64" -> "visit_f64"
      [] k = "Bytes" -> "visit_borrowed_bytes"
      [] k = "String" -> "visit_borrowed_str"

\* visit_value: what resolving a stored value does: one call on the visitor,
\* an error, a panic, or (kind "lazy") a nested deserialize_any on the span.
visit_value(f, value) ==
    CASE value.k = "Enum" -> visit_enum_value(value.n, f)
      [] value.k = "LazyMessage" ->
           [kind |-> "lazy", ev |-> Ev("", "", 0), err |-> "",
            d |-> value.d, n |-> value.n]
      [] value.k = "Null" -> Delivered(Ev("visit_none", "", 0))
      [] value.k = "BorrowedDefaultValue" ->
           IF value.ik = "Enum" THEN visit_enum_value(value.n, f)
           ELSE IF value.ik = "Message"
           THEN [kind |-> "panic", ev |-> Ev("", "", 0), err |-> "",
                 d |-> "", n |-> 0]
           ELSE Delivered(Ev(ScalarOp(value.ik), "", value.n))
      [] OTHER -> Delivered(Ev(ScalarOp(value.k), "", value.n))

(***************************************************************************)
(* The session: DeserializerBuilder::for_input(..).deserialize_any(..),    *)
(* the visitor's calls on MessageMapVisitor and RepeatedValueVisitor, and  *)
(* the returns of visit_map and visit_seq.                                 *)
(***************************************************************************)
Res == [pool |-> pool, bufs |-> bufs, peak |-> peak, decodes |-> decodes]

SetRes(R) ==
    \E r \in {R} : /\ pool' = r.pool
                    /\ bufs' = r.bufs
                    /\ peak' = r.peak
                    /\ decodes' = r.decodes

Top == frames[Len(frames)]

Running == Len(frames) > 0 /\ phase = "run"

\* The frame of one deserialize_any call: its descriptor and input (m, w),
\* MessageMapVisitor's drains
\* (single, repeated) and `current` (cur: empty or one field), the place
\* of the visitor (pc), the pending error (res), the position of
\* RepeatedValueVisitor's iterator (idx), and the message's two vectors.
NewFrame(m, w, msg) ==
    [m |-> m, w |-> w, single |-> msg.single, repeated |-> msg.repeated,
     cur |-> << >>, pc |-> "map", res |-> "ok", idx |-> 0, polls |-> 0,
     sfh |-> msg.sfh, rfh |-> msg.rfh]

Generalized(g, field) ==
    [fi |-> field.fi, tag |-> field.tag, g |-> g,
     v |-> IF g = "Single" THEN << field.value >> ELSE field.value,
     h |-> field.h]

SetTop(f) == [frames EXCEPT ![Len(frames)] = f]

NoDecode == [m |-> "", w |-> Wire(<< >>, FALSE), res |-> "none",
             single |-> << >>, repeated |-> << >>, depth |-> 0]

Decoded(m, w, dec, depth) ==
    [m |-> m, w |-> w, res |-> dec.res, single |-> dec.msg.single,
     repeated |-> dec.msg.repeated, depth |-> depth]

\* A panic unwinds the whole session: every vector still held is dropped.
Panic(R) ==
    /\ \E r \in {R} : SetRes(DropBufs(r, 1..Len(r.bufs)))
    /\ frames' = << >>
    /\ phase' = "done"
    /\ result' = "panic"

\* InnerMessageDeserializer::deserialize_any up to its call of visit_map,
\* for the session's input.
StartSession(m, w) ==
    \E dec \in {parse_from_reader(m, w, [pool |-> pool, bufs |-> << >>,
                                          peak |-> peak, decodes |-> 0])} :
        /\ input' = [m |-> m, w |-> w]
        /\ sessions' = sessions + 1
        /\ last' = Decoded(m, w, dec, 1)
        /\ SetRes(dec.R)
        /\ IF dec.res = "ok"
           THEN /\ frames' = << NewFrame(m, w, dec.msg) >>
                /\ trace' = << Ev("visit_map", m, 0) >>
                /\ phase' = "run"
                /\ result' = "none"
           ELSE /\ frames' = << >>
                /\ trace' = << >>
                /\ phase' = "done"
                /\ result' = dec.res

\* The end of a value's resolution in the frame f (the top frame, or the
\* parent of a frame that returned): next_value_seed returns for a single
\* field, next_element_seed for an element of a repeated one.
Resolved(f, err) ==
    IF f.cur[1].g = "Single"
    THEN [f EXCEPT !.cur = << >>,
                   !.pc = IF err = "ok" THEN "map" ELSE "ret",
                   !.res = err]
    ELSE [f EXCEPT !.idx = @ + 1,
                   !.pc = IF err = "ok" THEN "seq" ELSE "seqend",
                   !.res = err]

\* ValueDeserializer / visit_value on `value` of the current field of the
\* top frame, after the calls `pre` on the visitor.
Resolve(f, value, pre) ==
    LET fd == Fields(f.m)[f.cur[1].fi]
        o == visit_value(fd, value)
    IN  CASE o.kind = "ev" ->
               /\ frames' = SetTop(Resolved(f, "ok"))
               /\ trace' = trace \o pre \o << o.ev >>
               /\ UNCHANGED <<pool, bufs, peak, decodes, phase, result, last>>
          [] o.kind = "err" ->
               /\ frames' = SetTop(Resolved(f, o.err))
               /\ trace' = trace \o pre \o << Ev("error", o.err, 0) >>
               /\ UNCHANGED <<pool, bufs, peak, decodes, phase, result, last>>
          [] o.kind = "panic" ->
               /\ Panic(Res)
               /\ trace' = trace \o pre
               /\ UNCHANGED last
          [] o.kind = "lazy" ->
             \E dec \in {parse_from_reader(o.d, Payloads[o.n], Res)} :
               /\ last' = Decoded(o.d, Payloads[o.n], dec, Len(frames) + 1)
               /\ IF dec.res = "ok"
                  THEN /\ frames' = Append(SetTop([f EXCEPT !.pc = "sub"]),
                                           NewFrame(o.d, Payloads[o.n], dec.msg))
                       /\ trace' = trace \o pre \o << Ev("visit_map", o.d, 0) >>
                       /\ SetRes(dec.R)
                       /\ UNCHANGED <<phase, result>>
                  ELSE IF dec.res = "panic"
                  THEN /\ Panic(dec.R)
                       /\ trace' = trace \o pre
                  ELSE /\ frames' = SetTop(Resolved(f, dec.res))
                       /\ trace' = trace \o pre \o << Ev("error", dec.res, 0) >>
                       /\ SetRes(dec.R)
                       /\ UNCHANGED <<phase, result>>

\* The calls of next_key_seed on maps that had reported their end.
Repolls(t) ==
    Cardinality({k \in 2..Len(t) :
                    t[k].op = "end_map" /\ t[k - 1].op = "end_map"})

\* MessageMapVisitor::next_key_seed
next_key_seed ==
    /\ Running
    /\ Top.pc = "map"
    /\ LET f == Top
       IN  IF f.single # << >>
           THEN /\ frames' = SetTop([f EXCEPT
                                       !.cur = << Generalized("Single", Head(f.single)) >>,
                                       !.single = Tail(f.single),
                                       !.pc = "val"])
                /\ trace' = Append(trace,
                                   Ev("key", Fields(f.m)[Head(f.single).fi].name, 0))
           ELSE IF f.repeated # << >>
           THEN /\ frames' = SetTop([f EXCEPT
                                       !.cur = << Generalized("Repeated", Head(f.repeated)) >>,
                                       !.repeated = Tail(f.repeated),
                                       !.pc = "val"])
                /\ trace' = Append(trace,
                                   Ev("key", Fields(f.m)[Head(f.repeated).fi].name, 0))
           ELSE /\ (f.polls = 0 \/ Repolls(trace) < MaxPolls)
                /\ frames' = SetTop([f EXCEPT !.polls = @ + 1])
                /\ trace' = Append(trace, Ev("end_map", "", 0))
    /\ UNCHANGED <<pool, bufs, peak, decodes, phase, result, input, last,
                   sessions, ref, retain>>

\* MessageMapVisitor::next_value_seed with MessageFieldDeserializer::
\* deserialize_any, up to the return of a single value or the call of
\* visit_seq for a repeated one.
next_value_seed ==
    /\ Running
    /\ Top.pc = "val"
    /\ LET f == Top
           c == f.cur[1]
       IN  IF c.g = "Single"
           THEN IF Fields(f.m)[c.fi].label = "optional"
                THEN Resolve(f, c.v[1], << Ev("visit_some", "", 0) >>)
                ELSE Resolve(f, c.v[1], << >>)
           ELSE /\ frames' = SetTop([f EXCEPT !.pc = "seq", !.idx = 0])
                /\ trace' = Append(trace, Ev("visit_seq", "", Len(c.v)))
                /\ UNCHANGED <<pool, bufs, peak, decodes, phase, result, last>>
    /\ UNCHANGED <<input, sessions, ref, retain>>

\* RepeatedValueVisitor::next_element_seed
next_element_seed ==
    /\ Running
    /\ Top.pc = "seq"
    /\ LET f == Top
           c == f.cur[1]
       IN  IF f.idx < Len(c.v)
           THEN Resolve(f, c.v[f.idx + 1], << >>)
           ELSE /\ frames' = SetTop([f EXCEPT !.pc = "seqend"])
                /\ trace' = Append(trace, Ev("end_seq", "", 0))
                /\ UNCHANGED <<pool, bufs, peak, decodes, phase, result, last>>
    /\ UNCHANGED <<input, sessions, ref, retain>>

\* The returns of the session's visitors before the end of what they read.
EarlyCount(t) ==
    Cardinality({k \in 1..Len(t) :
                    t[k].op \in {"ret_map", "ret_seq"} /\ t[k].s = "early"})

\* The visitor returns from visit_seq (at the end, early, or with the
\* error of an element): the rest of next_value_seed returns the field's
\* vector to the pool.
SeqReturn ==
    /\ Running
    /\ Top.pc \in {"seq", "seqend"}
    /\ (Top.pc = "seq") => EarlyCount(trace) < MaxEarly
    /\ LET f == Top
           c == f.cur[1]
       IN  /\ SetRes(return_single_field_val_vec(Res, c.h, c.v))
           /\ frames' = SetTop([f EXCEPT
                                  !.cur = << >>,
                                  !.pc = IF f.res = "ok" THEN "map" ELSE "ret"])
           /\ trace' = Append(trace,
                              Ev("ret_seq",
                                 IF f.res # "ok" THEN "error"
                                 ELSE IF f.pc = "seqend" THEN "end"
                                 ELSE "early", 0))
    /\ UNCHANGED <<phase, result, input, last, sessions, ref, retain>>

\* The vectors of the fields MessageMapVisitor still holds when it is
\* dropped: the undrained repeated fields and `current`.
Undelivered(f) ==
    Handles(f.repeated) \cup
    (IF f.cur # << >> /\ f.cur[1].g = "Repeated" THEN {f.cur[1].h} ELSE {})

\* The visitor returns from visit_map (at the end, early, or with the error
\* of a value): the rest of deserialize_any returns the message's two
\* vectors and hands the result to its caller.
MapReturn ==
    /\ Running
    /\ Top.pc \in {"map", "val", "ret"}
    /\ (Top.pc = "val" \/ (Top.pc = "map" /\ Top.polls = 0)) =>
          EarlyCount(trace) < MaxEarly
    /\ LET f == Top
           R1 == DropBufs(Res, Undelivered(f))
           R2 == return_field_vec(R1, f.sfh, << >>)
           rest == SubSeq(frames, 1, Len(frames) - 1)
       IN  /\ SetRes(return_repeated_field_vec(R2, f.rfh, << >>))
           /\ trace' = Append(trace,
                              Ev("ret_map",
                                 IF f.pc = "ret" THEN "error"
                                 ELSE IF f.pc = "map" /\ f.polls > 0 THEN "end"
                                 ELSE "early", 0))
           /\ IF rest = << >>
              THEN /\ frames' = << >>
                   /\ phase' = "done"
                   /\ result' = f.res
              ELSE /\ frames' = [rest EXCEPT
                                   ![Len(rest)] = Resolved(rest[Len(rest)], f.res)]
                   /\ UNCHANGED <<phase, result>>
    /\ UNCHANGED <<input, last, sessions, ref, retain>>

(***************************************************************************)
(* Inputs, and the two specifications.                                     *)
(***************************************************************************)
\* The occurrences the wires of a top-level shape are made of; 9 is a field
\* number no shape declares.
Alphabet(m) ==
    CASE m = "Scalars" -> {Occ(1, 1), Occ(1, 2), Occ(2, 1), Occ(9, 1)}
      [] m = "Rep" -> {Occ(1, 1), Occ(4, 1), Occ(4, 2), Occ(5, 1), Occ(9, 1)}
      [] m = "Outer" -> {Occ(1, 3), Occ(2, 2), Occ(2, 3), Occ(3, 2)}
      [] m = "Enums" -> {Occ(1, 1), Occ(1, 2), Occ(3, 1), Occ(3, 2), Occ(4, 1)}
      [] m = "Types" -> {Occ(1, 1), Occ(2, 1), Occ(6, 1), Occ(9, 1)}
      [] m = "Unres" -> {Occ(1, 1), Occ(2, 1), Occ(3, 1), Occ(4, 1)}
      [] m = "UnresReq" -> {Occ(1, 1), Occ(2, 1)}
      [] m = "Defs" -> {Occ(1, 1), Occ(3, 1), Occ(3, 2)}

TopLevel == MessageNames \ {"Inner"}

SeqsUpTo(S, n) == UNION {[1..k -> S] : k \in 0..n}

Wires(m, n) == {Wire(items, bad) : items \in SeqsUpTo(Alphabet(m), n),
                                   bad \in BOOLEAN}

NoRef == [set |-> FALSE, input |-> [m |-> "", w |-> Wire(<< >>, FALSE)],
          trace |-> << >>, result |-> "none"]

NoCall == [given |-> << >>, slice |-> << >>, pc |-> "idle"]

Init ==
    /\ pool = ArrayPool_new
    /\ frames = << >>
    /\ trace = << >>
    /\ bufs = << >>
    /\ phase = "idle"
    /\ result = "none"
    /\ input = [m |-> "", w |-> Wire(<< >>, FALSE)]
    /\ decodes = 0
    /\ last = NoDecode
    /\ sessions = 0
    /\ peak = [sfv |-> 0, fv |-> 0, rfv |-> 0]
    /\ ref = NoRef
    /\ retain = NoCall

\* DeserializerBuilder::new, then for_input(w).deserialize_any(visitor).
Begin ==
    /\ phase = "idle"
    /\ \E m \in TopLevel : \E w \in Wires(m, MaxWire) : StartSession(m, w)
    /\ UNCHANGED <<ref, retain>>

Next ==
    \/ Begin
    \/ next_key_seed
    \/ next_value_seed
    \/ next_element_seed
    \/ SeqReturn
    \/ MapReturn

Spec == Init /\ [][Next]_vars

(***************************************************************************)
(* Several sessions, one after the other, on the pool of one               *)
(* DeserializerBuilder: sessions of any input, then sessions that decode   *)
(* the input of the session before them again.                             *)
(***************************************************************************)
In(m, items, bad) == [m |-> m, w |-> Wire(items, bad)]

SessInputs ==
    { In("Rep", << Occ(4, 1), Occ(1, 1), Occ(4, 2) >>, FALSE),
      In("Rep", << Occ(4, 1) >>, TRUE),
      In("Outer", << Occ(2, 2), Occ(1, 2) >>, FALSE),
      In("Outer", << Occ(2, 3) >>, FALSE),
      In("Enums", << Occ(4, 1), Occ(3, 2) >>, FALSE),
      In("Enums", << Occ(3, 1) >>, FALSE),
      In("Scalars", << Occ(1, 1), Occ(2, 1) >>, FALSE),
      In("UnresReq", << >>, FALSE),
      In("Defs", << Occ(3, 1) >>, FALSE) }

BeginSession ==
    /\ phase \in {"idle", "done"}
    /\ ~ref.set
    /\ sessions < MaxSessions
    /\ \E i \in SessInputs : StartSession(i.m, i.w)
    /\ UNCHANGED <<ref, retain>>

\* The visitor returned from a visit_map or a visit_seq before its end.
StoppedEarly(t) ==
    \E i \in 1..Len(t) : t[i].op \in {"ret_map", "ret_seq"} /\ t[i].s = "early"

\* The input of the session that just returned is decoded again; ref keeps
\* what the first of these sessions, one whose visitor read everything,
\* showed the visitor.
Replay ==
    /\ phase = "done"
    /\ sessions < MaxSessions
    /\ ref.set \/ ~StoppedEarly(trace)
    /\ StartSession(input.m, input.w)
    /\ ref' = IF ref.set THEN ref
              ELSE [set |-> TRUE, input |-> input, trace |-> trace,
                    result |-> result]
    /\ UNCHANGED retain

NextSessions ==
    \/ BeginSession
    \/ Replay
    \/ next_key_seed
    \/ next_value_seed
    \/ next_element_seed
    \/ SeqReturn
    \/ MapReturn

SpecSessions == Init /\ [][NextSessions]_vars

(***************************************************************************)
(* retain_last_by_key by itself, on any vector: the elements are records   *)
(* (tag, value), the key is the tag, as in parse_from_reader, and the      *)
(* value of an element is its place in the vector given.                   *)
(***************************************************************************)
Vectors ==
    {[i \in 1..Len(tags) |-> [tag |-> tags[i], value |-> i]] :
        tags \in SeqsUpTo(1..MaxKey, MaxVec)}

Give ==
    /\ retain.pc = "idle"
    /\ \E v \in Vectors : retain' = [given |-> v, slice |-> v, pc |-> "given"]
    /\ UNCHANGED <<pool, frames, trace, bufs, phase, result, input, decodes,
                   last, sessions, peak, ref>>

\* retain_last_by_key(&mut slice, |f| f.tag)
CallRetain ==
    /\ retain.pc = "given"
    /\ retain' = [retain EXCEPT !.slice = retain_last_by_key(@),
                                !.pc = "retained"]
    /\ UNCHANGED <<pool, frames, trace, bufs, phase, result, input, decodes,
                   last, sessions, peak, ref>>

\* slice.sort_by_key(|f| f.tag); retain_last_by_key(&mut slice, |f| f.tag)
CallSortRetain ==
    /\ retain.pc = "given"
    /\ retain' = [retain EXCEPT !.slice = retain_last_by_key(sort_by_key(@)),
                                !.pc = "sorted"]
    /\ UNCHANGED <<pool, frames, trace, bufs, phase, result, input, decodes,
                   last, sessions, peak, ref>>

NextRetain ==
    \/ Give
    \/ CallRetain
    \/ CallSortRetain

SpecRetain == Init /\ [][NextRetain]_vars

(***************************************************************************)
(* The claims.                                                             *)
(***************************************************************************)
Occurs(w, num) == \E i \in 1..Len(w.items) : w.items[i].num = num

\* The payloads of the occurrences of field number num, in wire order.
ValuesOf(w, num) ==
    LET at == SelectSeq([i \in 1..Len(w.items) |-> i],
                        LAMBDA i : w.items[i].num = num)
    IN  [k \in 1..Len(at) |-> w.items[at[k]].val]

LastVal(w, num) == ValuesOf(w, num)[Len(ValuesOf(w, num))]

\* What an occurrence with payload val is as a value of field fd.
WireValue(fd, val) == SingleFieldValue_parse_from_reader(fd, val).value

Bare(recs) == [j \in 1..Len(recs) |->
                 [fi |-> recs[j].fi, tag |-> recs[j].tag, value |-> recs[j].value]]

\* The records of frame f the traversal has still to resolve: the undrained
\* ones and `current`.
PendingSingle(f) ==
    Bare(f.single) \o
    (IF f.cur # << >> /\ f.cur[1].g = "Single"
     THEN << [fi |-> f.cur[1].fi, tag |-> f.cur[1].tag, value |-> f.cur[1].v[1]] >>
     ELSE << >>)

PendingRepeated(f) ==
    Bare(f.repeated) \o
    (IF f.cur # << >> /\ f.cur[1].g = "Repeated"
     THEN << [fi |-> f.cur[1].fi, tag |-> f.cur[1].tag, value |-> f.cur[1].v] >>
     ELSE << >>)

WithTag(recs, num) == {j \in 1..Len(recs) : recs[j].tag = num}

Follows(t, evs) ==
    \E i \in 0..Len(t) - Len(evs) : SubSeq(t, i + 1, i + Len(evs)) = evs

\* C1 (last-wins): a non-repeated field that occurs on the wire has exactly
\* one record in the decoded message, and that record, like the value the
\* traversal holds for the field until it resolves it, is the value of the
\* field's last occurrence.
LastWins ==
    /\ last.res = "ok" =>
         \A i \in 1..Len(Fields(last.m)) :
            LET fd == Fields(last.m)[i]
            IN  (~is_repeated(fd) /\ Occurs(last.w, fd.number)) =>
                  /\ Cardinality(WithTag(last.single, fd.number)) = 1
                  /\ \A j \in WithTag(last.single, fd.number) :
                        last.single[j].value =
                            WireValue(fd, LastVal(last.w, fd.number))
    /\ \A d \in 1..Len(frames) :
         LET recs == PendingSingle(frames[d])
         IN  \A j \in 1..Len(recs) :
                Occurs(frames[d].w, recs[j].tag) =>
                  recs[j].value = WireValue(Fields(frames[d].m)[recs[j].fi],
                                            LastVal(frames[d].w, recs[j].tag))
    /\ (phase # "idle" /\ input.m \in {"Scalars", "Rep", "Defs"}) =>
         \A i \in 1..Len(Fields(input.m)) :
            LET fd == Fields(input.m)[i]
                seen == Ev("visit_i32", "", LastVal(input.w, fd.number))
            IN  (~is_repeated(fd) /\ Occurs(input.w, fd.number)) =>
                  \A k \in 1..Len(trace) - 1 :
                     (trace[k] = Ev("key", fd.name, 0)
                        /\ trace[k + 1].op # "ret_map") =>
                       IF fd.label = "optional"
                       THEN /\ trace[k + 1] = Ev("visit_some", "", 0)
                            /\ trace[k + 2] = seen
                       ELSE trace[k + 1] = seen

LastWinsWitness ==
    /\ phase = "done"
    /\ result = "ok"
    /\ input = [m |-> "Scalars",
                w |-> Wire(<< Occ(1, 1), Occ(2, 1), Occ(1, 2) >>, FALSE)]
    /\ Follows(trace, << Ev("key", "a", 0), Ev("visit_i32", "", 2) >>)

\* C2 (accumulation): the record of a repeated field holds the values of all
\* the field's occurrences, in wire order, and the visitor is given them in
\* that order.
Accumulation ==
    /\ last.res = "ok" =>
         \A i \in 1..Len(Fields(last.m)) :
            LET fd == Fields(last.m)[i]
                vals == ValuesOf(last.w, fd.number)
            IN  is_repeated(fd) =>
                  /\ Cardinality(WithTag(last.repeated, fd.number)) = 1
                  /\ \A j \in WithTag(last.repeated, fd.number) :
                        last.repeated[j].value =
                            [k \in 1..Len(vals) |-> WireValue(fd, vals[k])]
    /\ \A d \in 1..Len(frames) :
         LET recs == PendingRepeated(frames[d])
         IN  \A j \in 1..Len(recs) :
                LET fd == Fields(frames[d].m)[recs[j].fi]
                    vals == ValuesOf(frames[d].w, recs[j].tag)
                IN  recs[j].value = [k \in 1..Len(vals) |-> WireValue(fd, vals[k])]
    /\ (Running /\ Top.pc = "seq" /\ Fields(Top.m)[Top.cur[1].fi].ty = "Int32") =>
         LET vals == ValuesOf(Top.w, Top.cur[1].tag)
         IN  /\ Top.idx <= Len(vals)
             /\ SubSeq(trace, Len(trace) - Top.idx, Len(trace)) =
                   << Ev("visit_seq", "", Len(vals)) >> \o
                   [k \in 1..Top.idx |-> Ev("visit_i32", "", vals[k])]

AccumulationWitness ==
    /\ Running
    /\ Top.m = "Rep"
    /\ Top.w.items = << Occ(4, 1), Occ(5, 1), Occ(4, 2) >>
    /\ Top.pc = "seq"
    /\ Top.cur[1].tag = 4
    /\ Top.idx = 2

\* The zero value of a type.
ZeroOf(ty) ==
    CASE ty \in {"Int32", "SInt32", "SFixed32"} -> SingleFieldValue("I32", 0, "", "")
      [] ty \in {"Int64", "SInt64", "SFixed64"} -> SingleFieldValue("I64", 0, "", "")
      [] ty \in {"UInt32", "Fixed32"} -> SingleFieldValue("U32", 0, "", "")
      [] ty \in {"UInt64", "Fixed64"} -> SingleFieldValue("U64", 0, "", "")
      [] ty = "Float" -> SingleFieldValue("F32", 0, "", "")
      [] ty = "Double" -> SingleFieldValue("F64", 0, "", "")
      [] ty = "Bool" -> SingleFieldValue("Bool", 0, "", "")
      [] ty = "String" -> SingleFieldValue("String", 0, "", "")
      [] ty = "Bytes" -> SingleFieldValue("Bytes", 0, "", "")
      [] ty = "Enum" -> SingleFieldValue("Enum", 0, "", "")
      [] ty = "Message" -> Null

ExpectedDefault(fd) ==
    IF fd.hasDef
    THEN SingleFieldValue("BorrowedDefaultValue", fd.defN, "", fd.defKind)
    ELSE IF fd.label = "optional" THEN Null
    ELSE ZeroOf(fd.ty)

\* C3 (default synthesis): a non-repeated field that does not occur on the
\* wire has exactly one record in the decoded message, holding the
\* descriptor's default if there is one, else Null if the field is optional,
\* else the zero value of its type (Null for a message); the traversal
\* holds that value for the field until it resolves it.
DefaultSynthesis ==
    /\ last.res = "ok" =>
         \A i \in 1..Len(Fields(last.m)) :
            LET fd == Fields(last.m)[i]
            IN  (~is_repeated(fd) /\ ~Occurs(last.w, fd.number)) =>
                  /\ Cardinality(WithTag(last.single, fd.number)) = 1
                  /\ \A j \in WithTag(last.single, fd.number) :
                        last.single[j].value = ExpectedDefault(fd)
    /\ \A d \in 1..Len(frames) :
         LET recs == PendingSingle(frames[d])
         IN  \A j \in 1..Len(recs) :
                ~Occurs(frames[d].w, recs[j].tag) =>
                  recs[j].value = ExpectedDefault(Fields(frames[d].m)[recs[j].fi])

DefaultSynthesisWitness ==
    /\ phase = "done"
    /\ result = "ok"
    /\ input = [m |-> "Scalars", w |-> Wire(<< >>, FALSE)]
    /\ Follows(trace, << Ev("key", "a", 0), Ev("visit_i32", "", 0) >>)
    /\ Follows(trace, << Ev("key", "b", 0), Ev("visit_some", "", 0),
                         Ev("visit_none", "", 0) >>)
    /\ Follows(trace, << Ev("key", "c", 0), Ev("visit_some", "", 0),
                         Ev("visit_i32", "", 7) >>)

\* The wire without the occurrences of numbers m does not declare.
StripUnknown(m, w) ==
    [w EXCEPT !.items = SelectSeq(@, LAMBDA o : FindField(m, o.num) # 0)]

FreshRes == [pool |-> ArrayPool_new, bufs |-> << >>,
             peak |-> [sfv |-> 0, fv |-> 0, rfv |-> 0], decodes |-> 0]

\* C4 (unknown fields): a decode gives what the decode of the wire without
\* its undeclared occurrences gives, the same outcome and the same records,
\* and no record of the message or of the traversal has an undeclared number.
UnknownFieldsDiscarded ==
    /\ last.res # "none" =>
         \E clean \in {parse_from_reader(last.m, StripUnknown(last.m, last.w),
                                         FreshRes)} :
            /\ clean.res = last.res
            /\ Bare(clean.msg.single) = Bare(last.single)
            /\ Bare(clean.msg.repeated) = Bare(last.repeated)
    /\ \A j \in 1..Len(last.single) : FindField(last.m, last.single[j].tag) # 0
    /\ \A j \in 1..Len(last.repeated) : FindField(last.m, last.repeated[j].tag) # 0
    /\ \A d \in 1..Len(frames) :
         LET recs == PendingSingle(frames[d]) \o PendingRepeated(frames[d])
         IN  \A j \in 1..Len(recs) : FindField(frames[d].m, recs[j].tag) # 0

UnknownFieldsWitness ==
    /\ phase = "done"
    /\ result = "ok"
    /\ input = [m |-> "Rep",
                w |-> Wire(<< Occ(9, 1), Occ(4, 1), Occ(9, 1) >>, FALSE)]
    /\ Follows(trace, << Ev("key", "r", 0), Ev("visit_seq", "", 1),
                         Ev("visit_i32", "", 1), Ev("end_seq", "", 0) >>)

\* C5 (optional presence): the visitor of an optional singular field gets a
\* none call with no some call before it when the stored value is Null, and
\* a some call wrapping the value otherwise; so no none call comes right
\* after a some call.
OptionalPresence ==
    \A k \in 2..Len(trace) :
       trace[k].op = "visit_none" => trace[k - 1].op # "visit_some"

\* The decodes of nested spans the traversal has shown the visitor: the
\* visit_map calls after the first, and the decode errors of spans.
NestedStart(k) ==
    k >= 2 /\ (trace[k].op = "visit_map" \/ trace[k] = Ev("error", "Reader", 0))

\* The calls before the k-th are those of the delivery of a message field.
DeliveringMessage(k) ==
    \/ trace[k - 1] = Ev("key", "q", 0)
    \/ k >= 3 /\ trace[k - 1].op = "visit_some" /\ trace[k - 2] = Ev("key", "m", 0)
    \/ trace[k - 1].op = "visit_seq"
    \/ trace[k - 1] = Ev("ret_map", "end", 0)
    \/ trace[k - 1] = Ev("ret_map", "early", 0)

\* C6 (lazy recursion): parse_from_reader is entered once for the session's
\* input and once more for each message value the traversal delivers, at
\* that delivery; a message field is stored as descriptor and span, and a
\* broken span fails no decode but its own.
LazyRecursion ==
    /\ phase # "idle" =>
         decodes = 1 + Cardinality({k \in 1..Len(trace) : NestedStart(k)})
    /\ (phase # "idle" /\ input.m = "Outer") =>
         /\ last.depth = 1 => (last.res = "ok" <=> ~input.w.bad)
         /\ ~input.w.bad => trace # << >> /\ trace[1] = Ev("visit_map", "Outer", 0)
         /\ \A k \in 1..Len(trace) : NestedStart(k) => DeliveringMessage(k)
         /\ last.depth = 1 =>
              \A j \in 1..Len(last.single) :
                 Occurs(last.w, last.single[j].tag) =>
                    /\ last.single[j].value.k = "LazyMessage"
                    /\ last.single[j].value.d = "Inner"

LazyRecursionWitness ==
    /\ phase = "done"
    /\ result = "Reader"
    /\ input = [m |-> "Outer", w |-> Wire(<< Occ(2, 2), Occ(1, 3) >>, FALSE)]
    /\ last.depth = 2
    /\ decodes = 2
    /\ Follows(trace, << Ev("key", "m", 0), Ev("visit_some", "", 0),
                         Ev("error", "Reader", 0), Ev("ret_map", "error", 0) >>)

HasUnresolved(m) ==
    \E i \in 1..Len(Fields(m)) :
       Fields(m)[i].ty \in {"UnresolvedMessage", "UnresolvedEnum"}

\* C7 (unresolved-type fail-fast): the decode of a message with a field of
\* an unresolved type returns a typed error, whatever the wire, and the
\* visitor is shown nothing.
UnresolvedFailFast ==
    (phase # "idle" /\ HasUnresolved(input.m)) =>
       /\ phase = "done"
       /\ result \in {"UnknownMessage", "UnknownEnum"}
       /\ trace = << >>

\* C8 (release on every exit path): when a session has returned, every
\* vector it acquired has been returned to the pool, once.
ReleasedOnEveryExit ==
    phase = "done" =>
       \A h \in 1..Len(bufs) : bufs[h].st = "released" /\ bufs[h].rel = 1

\* C9 (pool reuse bound): the vectors that exist, pooled or held, are never
\* more than the most a session held at once, and a session that decodes the
\* input of the session before it again creates no vector.
PoolReuseBound ==
    /\ \A shape \in Shapes :
          Len(pool[shape]) + Outstanding(bufs, shape) <= peak[shape]
    /\ ref.set => \A h \in 1..Len(bufs) : ~bufs[h].fresh

\* The first call in which the traces t and u differ, 0 when one is a prefix
\* of the other.
FirstDifference(t, u) ==
    LET n == IF Len(t) <= Len(u) THEN Len(t) ELSE Len(u)
        diff == {k \in 1..n : t[k] # u[k]}
    IN  IF diff = {} THEN 0 ELSE CHOOSE k \in diff : \A l \in diff : k <= l

\* C10 (idempotence, pool independence): every pooled vector is empty, and a
\* session that decodes an input again, on the pool the earlier sessions
\* left, shows its visitor the calls the earlier session showed, up to the
\* place where one of the two visitors chooses to return, and ends with the
\* same result when the calls are the same.
PoolIndependence ==
    /\ \A shape \in Shapes :
          \A j \in 1..Len(pool[shape]) : pool[shape][j] = << >>
    /\ ref.set =>
         /\ input = ref.input
         /\ \E k \in {FirstDifference(trace, ref.trace)} :
               k # 0 => \E e \in {trace[k], ref.trace[k]} :
                           e.op \in {"ret_map", "ret_seq"} /\ e.s # "error"
         /\ (phase = "done" /\ trace = ref.trace) => result = ref.result

PoolIndependenceWitness ==
    /\ ref.set
    /\ sessions = 3
    /\ phase = "done"
    /\ result = "ok"
    /\ input = [m |-> "Rep", w |-> Wire(<< Occ(4, 1), Occ(1, 1), Occ(4, 2) >>, FALSE)]
    /\ trace = ref.trace
    /\ \E h \in 1..Len(bufs) : ~bufs[h].fresh

\* The call an enum field fd makes on its visitor for the number n: the name
\* the enum gives n, or the error when it gives none.
EnumEvent(fd, n) ==
    LET names == EnumNames(fd.tref)
        hits == {j \in 1..Len(names) : names[j][1] = n}
    IN  IF hits = {} THEN Ev("error", "UnknownEnumValue", 0)
        ELSE Ev("visit_str", names[CHOOSE j \in hits : TRUE][2], 0)

\* The number a non-repeated enum field stores for the wire w.
StoredNumber(fd, w) ==
    IF Occurs(w, fd.number) THEN LastVal(w, fd.number)
    ELSE IF fd.hasDef THEN fd.defN ELSE 0

NumberOps == {"visit_bool", "visit_i32", "visit_i64", "visit_u32", "visit_u64",
              "visit_f32", "visit_f64"}

\* C11 (enum fidelity): the visitor of an enum value, decoded from the wire,
\* synthesized as zero or taken from the descriptor's default, singular or an
\* element of a repeated field, gets the name the field's enum gives the
\* stored number, or the resolution fails with UnknownEnumValue when the enum
\* gives it none; no number is ever passed to the visitor.
EnumFidelity ==
    (phase # "idle" /\ input.m = "Enums") =>
       /\ \A k \in 1..Len(trace) : trace[k].op \notin NumberOps
       /\ \A i \in 1..Len(Fields("Enums")) : \A k \in 1..Len(trace) - 1 :
             LET fd == Fields("Enums")[i]
                 vals == ValuesOf(input.w, fd.number)
             IN  (trace[k] = Ev("key", fd.name, 0) /\ trace[k + 1].op # "ret_map") =>
                   IF is_repeated(fd)
                   THEN /\ trace[k + 1] = Ev("visit_seq", "", Len(vals))
                        /\ \A j \in 1..Len(vals) :
                              (/\ k + 1 + j <= Len(trace)
                               /\ trace[k + 1 + j].op \notin {"ret_seq", "end_seq"}
                               /\ \A l \in 1..j - 1 :
                                     trace[k + 1 + l].op = "visit_str") =>
                                 trace[k + 1 + j] = EnumEvent(fd, vals[j])
                   ELSE IF fd.label = "optional"
                   THEN /\ trace[k + 1] = Ev("visit_some", "", 0)
                        /\ trace[k + 2] = EnumEvent(fd, StoredNumber(fd, input.w))
                   ELSE trace[k + 1] = EnumEvent(fd, StoredNumber(fd, input.w))

EnumFidelityWitness ==
    /\ phase = "done"
    /\ result = "UnknownEnumValue"
    /\ input = [m |-> "Enums",
                w |-> Wire(<< Occ(3, 1), Occ(4, 1), Occ(3, 2) >>, FALSE)]
    /\ Follows(trace, << Ev("key", "e", 0), Ev("visit_str", "ZERO", 0),
                         Ev("key", "f", 0), Ev("visit_some", "", 0),
                         Ev("visit_str", "ONE", 0),
                         Ev("key", "h", 0), Ev("visit_str", "UNO", 0),
                         Ev("key", "g", 0), Ev("visit_seq", "", 2),
                         Ev("visit_str", "ONE", 0),
                         Ev("error", "UnknownEnumValue", 0) >>)

FieldNamed(m, name) ==
    CHOOSE i \in 1..Len(Fields(m)) : Fields(m)[i].name = name

KeysAt(t) == {k \in 1..Len(t) : t[k].op = "key"}

\* The shapes without message fields: all keys of a session are the keys of
\* its one map.
FlatShapes == {"Scalars", "Rep", "Enums", "Types", "Unres", "UnresReq", "Defs"}

\* C12 (traversal key order): the keys of a map are the declared names of
\* its fields, the non-repeated fields first, in strictly ascending field
\* number, then the repeated fields; no key comes twice, none after the end
\* of the map was reported, and the end is reported only after every field,
\* and again at every further request.
KeyOrder ==
    /\ \A d \in 1..Len(frames) :
         LET f == frames[d]
         IN  /\ \A j \in 1..Len(f.single) - 1 : f.single[j].tag < f.single[j + 1].tag
             /\ (f.cur # << >> /\ f.cur[1].g = "Single") =>
                   \A j \in 1..Len(f.single) : f.cur[1].tag < f.single[j].tag
             /\ (f.cur # << >> /\ f.cur[1].g = "Repeated") => f.single = << >>
             /\ f.polls > 0 => f.single = << >> /\ f.repeated = << >> /\ f.cur = << >>
    /\ (phase # "idle" /\ input.m \in FlatShapes) =>
         /\ \A k \in KeysAt(trace) :
               \E i \in 1..Len(Fields(input.m)) : Fields(input.m)[i].name = trace[k].s
         /\ \A k1 \in KeysAt(trace) : \A k2 \in KeysAt(trace) :
               LET i1 == FieldNamed(input.m, trace[k1].s)
                   i2 == FieldNamed(input.m, trace[k2].s)
                   f1 == Fields(input.m)[i1]
                   f2 == Fields(input.m)[i2]
               IN  k1 < k2 =>
                     /\ i1 # i2
                     /\ ~is_repeated(f2) => ~is_repeated(f1) /\ f1.number < f2.number
         /\ \A k \in 1..Len(trace) :
               trace[k].op = "end_map" =>
                  /\ Cardinality({j \in KeysAt(trace) : j < k}) = Len(Fields(input.m))
                  /\ \A j \in k + 1..Len(trace) : trace[j].op \in {"end_map", "ret_map"}

KeyOrderWitness ==
    /\ phase = "done"
    /\ result = "ok"
    /\ input = [m |-> "Rep", w |-> Wire(<< Occ(5, 1), Occ(9, 1), Occ(4, 1) >>, FALSE)]
    /\ trace = << Ev("visit_map", "Rep", 0),
                  Ev("key", "a", 0), Ev("visit_i32", "", 0),
                  Ev("key", "r", 0), Ev("visit_seq", "", 1), Ev("visit_i32", "", 1),
                  Ev("end_seq", "", 0), Ev("ret_seq", "end", 0),
                  Ev("key", "s", 0), Ev("visit_seq", "", 1), Ev("visit_i32", "", 1),
                  Ev("end_seq", "", 0), Ev("ret_seq", "end", 0),
                  Ev("end_map", "", 0), Ev("end_map", "", 0),
                  Ev("ret_map", "end", 0) >>

Released(shape) ==
    {h \in 1..Len(bufs) : bufs[h].shape = shape /\ bufs[h].st = "released"}

Count(t, op) == Cardinality({k \in 1..Len(t) : t[k].op = op})

\* C13 (top-level release after traversal): the two vectors of a decoded
\* message are held while its traversal runs and have each been returned to
\* the pool, once, when visit_map has returned, at its end, early or with an
\* error, and so before the session returns.
TopLevelRelease ==
    /\ \A shape \in {"fv", "rfv"} :
          /\ Cardinality(Released(shape)) = Count(trace, "ret_map")
          /\ \A h \in Released(shape) : bufs[h].rel = 1
    /\ \A d \in 1..Len(frames) :
          /\ bufs[frames[d].sfh] = [shape |-> "fv", st |-> "out", rel |-> 0,
                                    fresh |-> bufs[frames[d].sfh].fresh]
          /\ bufs[frames[d].rfh] = [shape |-> "rfv", st |-> "out", rel |-> 0,
                                    fresh |-> bufs[frames[d].rfh].fresh]
    /\ result # "panic" =>
          Count(trace, "visit_map") = Count(trace, "ret_map") + Len(frames)

TopLevelReleaseWitness ==
    /\ phase = "done"
    /\ result = "UnknownEnumValue"
    /\ input = [m |-> "Enums", w |-> Wire(<< Occ(4, 1), Occ(3, 2) >>, FALSE)]
    /\ trace[Len(trace)] = Ev("ret_map", "error", 0)
    /\ Cardinality(Released("fv")) = 1
    /\ Cardinality(Released("rfv")) = 1

\* C14 (fine-grained release of repeated values): the value vector of a
\* repeated field has been returned to the pool, once, when next_value_seed
\* has returned for its key, with or without an error and whatever the
\* visitor read of it; so no frame that can be asked for its next key holds
\* a current field, every value vector still out is that of a field not yet
\* delivered, and the returned vectors are in the pool for the acquires that
\* follow.
FineGrainedRelease ==
    /\ Cardinality(Released("sfv")) = Count(trace, "ret_seq")
    /\ \A h \in Released("sfv") : bufs[h].rel = 1
    /\ \A d \in 1..Len(frames) : frames[d].pc \in {"map", "ret"} => frames[d].cur = << >>
    /\ \A h \in 1..Len(bufs) :
          (bufs[h].shape = "sfv" /\ bufs[h].st = "out") =>
             \E d \in 1..Len(frames) : h \in Undelivered(frames[d])
    /\ Len(pool.sfv) =
          Count(trace, "ret_seq")
          - Cardinality({h \in 1..Len(bufs) : bufs[h].shape = "sfv" /\ ~bufs[h].fresh})

FineGrainedReleaseWitness ==
    /\ Running
    /\ input = [m |-> "Outer", w |-> Wire(<< Occ(2, 2), Occ(2, 2) >>, FALSE)]
    /\ Len(frames) = 2
    /\ Count(trace, "ret_seq") = 1
    /\ \E h \in 1..Len(bufs) :
          bufs[h] = [shape |-> "sfv", st |-> "out", rel |-> 0, fresh |-> FALSE]

\* The repeated fields a frame has still to deliver, `current` first.
HeldRepeated(f) ==
    (IF f.cur # << >> /\ f.cur[1].g = "Repeated"
     THEN << [fi |-> f.cur[1].fi, tag |-> f.cur[1].tag, h |-> f.cur[1].h] >>
     ELSE << >>) \o
    [j \in 1..Len(f.repeated) |->
       [fi |-> f.repeated[j].fi, tag |-> f.repeated[j].tag, h |-> f.repeated[j].h]]

\* C15 (repeated-field seeding): a decoded message has one record per
\* declared repeated field, in declaration order, whatever the wire; each
\* holds the vector the seeding acquired for it, so the scan never creates a
\* record; and a repeated field the wire does not have is delivered as a key
\* with an empty sequence.
RepeatedSeeding ==
    /\ last.res = "ok" =>
         LET idx == RepeatedIdx(last.m)
         IN  /\ Len(last.repeated) = Len(idx)
             /\ \A k \in 1..Len(idx) :
                   /\ last.repeated[k].fi = idx[k]
                   /\ last.repeated[k].tag = Fields(last.m)[idx[k]].number
                   /\ last.repeated[k].h = last.repeated[1].h + k - 1
    /\ \A d \in 1..Len(frames) :
         LET f == frames[d]
             idx == RepeatedIdx(f.m)
             held == HeldRepeated(f)
             gone == Len(idx) - Len(held)
         IN  /\ gone >= 0
             /\ \A j \in 1..Len(held) :
                   /\ held[j].fi = idx[gone + j]
                   /\ held[j].tag = Fields(f.m)[idx[gone + j]].number
                   /\ held[j].h = f.rfh + gone + j
    /\ (phase # "idle" /\ input.m \in FlatShapes) =>
         \A i \in 1..Len(Fields(input.m)) : \A k \in 1..Len(trace) - 1 :
            LET fd == Fields(input.m)[i]
            IN  (/\ is_repeated(fd)
                 /\ ~Occurs(input.w, fd.number)
                 /\ trace[k] = Ev("key", fd.name, 0)
                 /\ trace[k + 1].op # "ret_map") =>
                   trace[k + 1] = Ev("visit_seq", "", 0)

RepeatedSeedingWitness ==
    /\ phase = "done"
    /\ result = "ok"
    /\ input = [m |-> "Rep", w |-> Wire(<< Occ(5, 1) >>, FALSE)]
    /\ Follows(trace, << Ev("key", "r", 0), Ev("visit_seq", "", 0),
                         Ev("end_seq", "", 0), Ev("ret_seq", "end", 0),
                         Ev("key", "s", 0), Ev("visit_seq", "", 1) >>)

\* The places of the last elements of the maximal runs of equal keys of v.
RunEnds(v) ==
    SelectSeq([i \in 1..Len(v) |-> i],
              LAMBDA i : i = Len(v) \/ v[i].tag # v[i + 1].tag)

LastOfRuns(v) == [k \in 1..Len(RunEnds(v)) |-> v[RunEnds(v)[k]]]

\* C16 (retain_last_by_key): on any vector, empty, of one element, sorted by
\* key or not, the call leaves the last element of each maximal run of equal
\* keys, in the order of the runs, as many elements as there are runs; after
\* a stable sort by tag it leaves one element per tag, the one that was last
\* in the vector given, in ascending order of tag.
RetainLast ==
    /\ retain.pc = "retained" =>
          /\ retain.slice = LastOfRuns(retain.given)
          /\ Len(retain.slice) = Len(RunEnds(retain.given))
    /\ retain.pc = "sorted" =>
          LET tags == {retain.given[i].tag : i \in 1..Len(retain.given)}
          IN  /\ Len(retain.slice) = Cardinality(tags)
              /\ \A j \in 1..Len(retain.slice) - 1 :
                    retain.slice[j].tag < retain.slice[j + 1].tag
              /\ \A j \in 1..Len(retain.slice) :
                    /\ retain.given[retain.slice[j].value] = retain.slice[j]
                    /\ \A i \in 1..Len(retain.given) :
                          retain.given[i].tag = retain.slice[j].tag =>
                             i <= retain.slice[j].value

RetainLastWitness ==
    /\ retain.pc = "retained"
    /\ retain.given = << [tag |-> 2, value |-> 1], [tag |-> 2, value |-> 2],
                         [tag |-> 3, value |-> 3], [tag |-> 2, value |-> 4] >>
    /\ retain.slice = << [tag |-> 2, value |-> 2], [tag |-> 3, value |-> 3],
                         [tag |-> 2, value |-> 4] >>

====
